---- MODULE Spec2Model ----
(***************************************************************************)
(* Model of the LPC / granular pitch shifter of 17_Voice_Transformers:     *)
(* bac, ld, lpc, subsample, resample, win_taper and LPC_GS_pshift.         *)
(*                                                                         *)
(* Samples are numpy float64 values.  A value is a pair <<n, d>>:          *)
(*   d > 0, n # 0   the finite number n/d in lowest terms                  *)
(*   <<0, 1>>       +0.0            <<0, -1>>   -0.0                        *)
(*   <<1, 0>>       +inf            <<-1, 0>>   -inf                        *)
(*   <<0, 0>>       nan                                                    *)
(* Finite arithmetic is exact (rounding is not modelled); the special      *)
(* values follow IEEE 754, which is what numpy computes (a division by     *)
(* zero gives inf or nan and a warning, never an exception).               *)
(***************************************************************************)
EXTENDS Integers, Sequences, FiniteSets, TLC

VARIABLES x, f, G, P, overlap, win, stride, igs, y, n, r, a, e, w, tpos, val, pc, err,
          alt, h, ix, M, buf, todo, diff

vars == <<x, f, G, P, overlap, win, stride, igs, y, n, r, a, e, w, tpos, val, pc, err,
          alt, h, ix, M, buf, todo, diff>>

(* ------------------------------ bounds -------------------------------- *)
MaxLen == 5
MaxG == 3
MaxP == 2
MaxBlock == 4
MaxCoef == 1
MaxN == 8
MaxTaps == 3
MaxCalls == 4

(* --------------------------- float64 values --------------------------- *)
Abs(i) == IF i < 0 THEN -i ELSE i

RECURSIVE GCD(_, _)
GCD(i, j) == IF j = 0 THEN i ELSE GCD(j, i % j)

NaN == <<0, 0>>
Zero(s) == <<0, s>>
Inf(s) == <<s, 0>>
One == <<1, 1>>

IsNaN(u) == u[1] = 0 /\ u[2] = 0
IsInf(u) == u[1] # 0 /\ u[2] = 0
IsZero(u) == u[1] = 0 /\ u[2] # 0
IsFinite(u) == u[2] # 0

\* sign bit of a value that is not nan: 1 or -1
Sgn(u) == IF u[1] # 0 THEN (IF u[1] > 0 THEN 1 ELSE -1)
          ELSE (IF u[2] < 0 THEN -1 ELSE 1)

\* the finite value i/j (j > 0) in lowest terms
Rat(i, j) == IF i = 0 THEN Zero(1)
             ELSE LET g == GCD(Abs(i), j) IN <<i \div g, j \div g>>

FromInt(i) == Rat(i, 1)

Neg(u) == IF IsNaN(u) THEN NaN
          ELSE IF u[1] = 0 THEN Zero(-u[2])
          ELSE <<-u[1], u[2]>>

Mul(u, v) ==
    IF IsNaN(u) \/ IsNaN(v) THEN NaN
    ELSE IF (IsInf(u) /\ IsZero(v)) \/ (IsZero(u) /\ IsInf(v)) THEN NaN
    ELSE IF IsInf(u) \/ IsInf(v) THEN Inf(Sgn(u) * Sgn(v))
    ELSE IF IsZero(u) \/ IsZero(v) THEN Zero(Sgn(u) * Sgn(v))
    ELSE Rat(u[1] * v[1], u[2] * v[2])

Add(u, v) ==
    IF IsNaN(u) \/ IsNaN(v) THEN NaN
    ELSE IF IsInf(u) /\ IsInf(v) THEN (IF Sgn(u) = Sgn(v) THEN u ELSE NaN)
    ELSE IF IsInf(u) THEN u
    ELSE IF IsInf(v) THEN v
    ELSE IF IsZero(u) /\ IsZero(v)
         THEN (IF Sgn(u) = -1 /\ Sgn(v) = -1 THEN Zero(-1) ELSE Zero(1))
    ELSE IF IsZero(u) THEN v
    ELSE IF IsZero(v) THEN u
    ELSE Rat(u[1] * v[2] + v[1] * u[2], u[2] * v[2])

Sub(u, v) == Add(u, Neg(v))

Div(u, v) ==
    IF IsNaN(u) \/ IsNaN(v) THEN NaN
    ELSE IF IsInf(u) /\ IsInf(v) THEN NaN
    ELSE IF IsZero(u) /\ IsZero(v) THEN NaN
    ELSE IF IsInf(u) THEN Inf(Sgn(u) * Sgn(v))
    ELSE IF IsInf(v) THEN Zero(Sgn(u) * Sgn(v))
    ELSE IF IsZero(v) THEN Inf(Sgn(u) * Sgn(v))
    ELSE IF IsZero(u) THEN Zero(Sgn(u) * Sgn(v))
    ELSE IF v[1] < 0 THEN Rat(-(u[1] * v[2]), -(u[2] * v[1]))
    ELSE Rat(u[1] * v[2], u[2] * v[1])

\* the == of two floats: nan equals nothing, +0.0 equals -0.0
Eq(u, v) == /\ ~IsNaN(u)
            /\ ~IsNaN(v)
            /\ (u = v \/ (IsZero(u) /\ IsZero(v)))

\* np.zeros(k)
zeros(k) == [i \in 1..k |-> Zero(1)]

\* np.ones(k)
ones(k) == [i \in 1..k |-> One]

\* np.dot(u, v) of two vectors of the same length
RECURSIVE DotTo(_, _, _)
DotTo(u, v, k) == IF k = 0 THEN Zero(1)
                  ELSE Add(DotTo(u, v, k - 1), Mul(u[k], v[k]))

dot(u, v) == DotTo(u, v, Len(u))

(* ------------------------------- bac ---------------------------------- *)
\* r[m] after the inner loop over n in range(0, L-m), before the division
RECURSIVE bac_acc(_, _, _)
bac_acc(s, m, k) == IF k = 0 THEN Zero(1)
                    ELSE Add(bac_acc(s, m, k - 1), Mul(s[k], s[k + m]))

bac_unbiased(s, p) ==
    [m1 \in 1..(p + 1) |->
        Div(bac_acc(s, m1 - 1, IF Len(s) - (m1 - 1) > 0 THEN Len(s) - (m1 - 1) ELSE 0),
            FromInt(Len(s) - (m1 - 1)))]

\* biased autocorrelation of s up to lag p; entry m+1 is r[m]
bac(s, p) ==
    [m1 \in 1..(p + 1) |->
        Div(bac_acc(s, m1 - 1, IF Len(s) - (m1 - 1) > 0 THEN Len(s) - (m1 - 1) ELSE 0),
            FromInt(Len(s)))]

(* -------------------------------- ld ---------------------------------- *)
\* the loop state [g, a, v] of ld after the order-(i+1) update; i = 0 is the
\* state before the loop (lines 939-941)
RECURSIVE ld_state_stalev(_, _)
ld_state_stalev(rr, i) ==
    IF i = 0
    THEN LET g == Div(rr[2], rr[1])
         IN [g |-> g, a |-> <<g>>, v |-> rr[1]]
    ELSE LET prev == ld_state_stalev(rr, i - 1)
             g == Div(Sub(rr[i + 2], dot(prev.a, SubSeq(rr, 2, i + 1))), prev.v)
         IN [g |-> g,
             a |-> <<g>> \o [k \in 1..i |-> Sub(prev.a[k], Mul(g, prev.a[i + 1 - k]))],
             v |-> prev.v]

RECURSIVE ld_state(_, _)
ld_state(rr, i) ==
    IF i = 0
    THEN LET g == Div(rr[2], rr[1])
         IN [g |-> g, a |-> <<g>>, v |-> Mul(Sub(One, Mul(g, g)), rr[1])]
    ELSE LET prev == ld_state(rr, i - 1)
             g == Div(Sub(rr[i + 2], dot(prev.a, SubSeq(rr, 2, i + 1))), prev.v)
         IN [g |-> g,
             a |-> <<g>> \o [k \in 1..i |-> Sub(prev.a[k], Mul(g, prev.a[i + 1 - k]))],
             v |-> Mul(prev.v, Sub(One, Mul(g, g)))]

ld_noreverse(rr, p) ==
    <<One>> \o [k \in 1..p |-> Neg(ld_state(rr, p - 1).a[k])]

ld_nolead(rr, p) ==
    [k \in 1..p |-> Neg(ld_state(rr, p - 1).a[p + 1 - k])]

\* Levinson-Durbin: the coefficients [1, -a[p-1], ..., -a[0]] of A(z)
ld(rr, p) ==
    LET fin == ld_state(rr, p - 1).a
    IN <<One>> \o [k \in 1..p |-> Neg(fin[p + 1 - k])]

lpc(s, p) == ld(bac(s, p), p)

(* ------------------------------ lfilter ------------------------------- *)
Min(i, j) == IF i < j THEN i ELSE j
Max(i, j) == IF i > j THEN i ELSE j

\* sum over k = lo..hi of c[k+1] * s[m-k]
RECURSIVE TapSum(_, _, _, _, _)
TapSum(c, s, m, lo, hi) ==
    IF hi < lo THEN Zero(1)
    ELSE Add(TapSum(c, s, m, lo, hi - 1), Mul(c[hi + 1], s[m - hi]))

\* scipy.signal.lfilter(b, aa, s) from zero initial state, aa[0] = 1:
\* out[m] = sum_k b[k] s[m-k] - sum_{k>=1} aa[k] out[m-k]
RECURSIVE lfilter_from(_, _, _, _)
lfilter_from(b, aa, s, out) ==
    IF Len(out) = Len(s) THEN out
    ELSE LET m == Len(out) + 1
             ff == TapSum(b, s, m, 0, Min(m - 1, Len(b) - 1))
             fb == TapSum(aa, out, m, 1, Min(m - 1, Len(aa) - 1))
         IN lfilter_from(b, aa, s, Append(out, Sub(ff, fb)))

lfilter(b, aa, s) == lfilter_from(b, aa, s, <<>>)

(* ----------------------------- resampling ----------------------------- *)
\* int(t) of a finite float: truncation toward zero
Trunc(t) == IF t[1] < 0 THEN -((-t[1]) \div t[2]) ELSE t[1] \div t[2]

\* s[i] with Python indexing (a negative index counts from the end)
InRange(s, i) == -Len(s) <= i /\ i < Len(s)
Get(s, i) == IF i >= 0 THEN s[i + 1] ELSE s[Len(s) + i + 1]

subsample_noclamp(s, t) ==
    LET k == Trunc(t)
        c == Sub(One, Sub(t, FromInt(k)))
    IN IF InRange(s, k) /\ InRange(s, k + 1)
       THEN Add(Mul(c, Get(s, k)), Mul(Sub(One, c), Get(s, k + 1)))
       ELSE Zero(1)

subsample_swapped(s, t) ==
    LET k == Trunc(t)
        c == Sub(One, Sub(t, FromInt(k)))
    IN IF InRange(s, k) /\ InRange(s, k + 1)
       THEN Add(Mul(Sub(One, c), Get(s, k)), Mul(c, Get(s, k + 1)))
       ELSE IF InRange(s, k) THEN Mul(c, Get(s, k))
       ELSE Zero(1)

\* linear interpolation of s at the fractional index t, with the two
\* IndexError fallbacks
subsample(s, t) ==
    LET k == Trunc(t)
        c == Sub(One, Sub(t, FromInt(k)))
    IN IF InRange(s, k) /\ InRange(s, k + 1)
       THEN Add(Mul(c, Get(s, k)), Mul(Sub(One, c), Get(s, k + 1)))
       ELSE IF InRange(s, k) THEN Mul(c, Get(s, k))
       ELSE Zero(1)

\* int(np.floor(len(s) / ratio)), ratio > 0
n_out(s, ratio) == (Len(s) * ratio[2]) \div ratio[1]

resample_shifted(s, ratio) ==
    [k1 \in 1..n_out(s, ratio) |-> subsample(s, Mul(FromInt(k1), ratio))]

resample(s, ratio) ==
    [k1 \in 1..n_out(s, ratio) |-> subsample(s, Mul(FromInt(k1 - 1), ratio))]

(* ------------------------------ win_taper ----------------------------- *)
\* R = int(N * t / 2)
taper_R(N, t) == Trunc(Div(Mul(FromInt(N), t), FromInt(2)))

ramp_inclusive(R) == [k1 \in 1..R |-> Div(FromInt(k1), FromInt(R))]

\* np.arange(0, R) / float(R)
ramp(R) == [k1 \in 1..R |-> Div(FromInt(k1 - 1), FromInt(R))]

Reverse(s) == [k \in 1..Len(s) |-> s[Len(s) + 1 - k]]

win_taper(N, t) ==
    LET R == taper_R(N, t)
    IN [win |-> ramp(R) \o ones(N - 2 * R) \o Reverse(ramp(R)),
        stride |-> N - R - 1]

(* --------------------------- LPC_GS_pshift ---------------------------- *)
\* igs = int(G * f + 0.5)
input_grain_size(g, ratio) == Trunc(Add(Mul(FromInt(g), ratio), Rat(1, 2)))

InLoop_le(k) == k <= Len(x) - Max(igs, G)

\* range(0, len(x) - max(igs, G), stride) still yields the index k
InLoop(k) == k < Len(x) - Max(igs, G)

\* w * win: element-wise, a length-1 operand is broadcast
Broadcastable(u, v) == Len(u) = Len(v) \/ Len(u) = 1 \/ Len(v) = 1
times(u, v) == [k \in 1..Max(Len(u), Len(v)) |->
                   Mul(IF Len(u) = 1 THEN u[1] ELSE u[k],
                       IF Len(v) = 1 THEN v[1] ELSE v[k])]

add_slice_shifted(yy, k, g, c) ==
    [i \in 1..Len(yy) |->
        IF k + 2 <= i /\ i <= k + g + 1
        THEN Add(yy[i], IF Len(c) = 1 THEN c[1] ELSE c[i - k - 1])
        ELSE yy[i]]

add_slice_overwrite(yy, k, g, c) ==
    [i \in 1..Len(yy) |->
        IF k + 1 <= i /\ i <= k + g
        THEN (IF Len(c) = 1 THEN c[1] ELSE c[i - k])
        ELSE yy[i]]

\* y[k:k+g] += c, the slice lying inside y
add_slice(yy, k, g, c) ==
    [i \in 1..Len(yy) |->
        IF k + 1 <= i /\ i <= k + g
        THEN Add(yy[i], IF Len(c) = 1 THEN c[1] ELSE c[i - k])
        ELSE yy[i]]

\* one grain of the loop body at start index k: the values of w (line
\* 1064), a (1065), e (1066-1067) and w (1068), each computed once
grain_synth(w0, rr, aa, e1) ==
    [src |-> w0, r |-> rr, a |-> aa, e |-> e1, w |-> lfilter(<<One>>, aa, e1)]

grain_excite(w0, rr, aa) ==
    grain_synth(w0, rr, aa, resample(lfilter(aa, <<One>>, w0), f))

grain_lpc(w0, rr) == grain_excite(w0, rr, ld(rr, P))

grain_stale(w0) == grain_lpc(w0, IF r = <<>> THEN bac(w0, P) ELSE r)

grain_of(w0) == grain_lpc(w0, bac(w0, P))

grain(k) == grain_of(SubSeq(x, k + 1, k + igs))

(* ------------------------------ inputs -------------------------------- *)
\* the signal is scaled to floats in [-1, 1] (line 64)
Samples == {FromInt(-1), FromInt(0), FromInt(1)}

\* small integer entries for a directly supplied r or coefficient vector
Coefs == {FromInt(i) : i \in (-MaxCoef)..MaxCoef}

RECURSIVE SeqsUpTo(_, _)
SeqsUpTo(S, k) ==
    IF k = 0 THEN {<<>>}
    ELSE LET prev == SeqsUpTo(S, k - 1)
         IN prev \cup {Append(s, v) : s \in {q \in prev : Len(q) = k - 1}, v \in S}

\* pitch ratios and taper fractions, all exact in binary
Ratios == {Rat(1, 2), Rat(3, 4), One, Rat(3, 2)}
Overlaps == {Zero(1), Rat(3, 4)}
Tapers == {Zero(1), Rat(1, 4), Rat(1, 2), Rat(3, 4), One}

(* ------------------- specification: LPC_GS_pshift --------------------- *)
Init ==
    /\ x \in SeqsUpTo(Samples, MaxLen)
    /\ f \in Ratios
    /\ G \in 1..MaxG
    /\ P \in 1..MaxP
    /\ overlap \in Overlaps
    /\ win = <<>> /\ stride = 0 /\ igs = 0
    /\ y = <<>> /\ n = 0
    /\ r = <<>> /\ a = <<>> /\ e = <<>> /\ w = <<>>
    /\ tpos = Zero(1) /\ val = Zero(1)
    /\ alt = <<>> /\ h = <<>> /\ ix = 0 /\ M = 0 /\ buf = <<>>
    /\ todo = {} /\ diff = <<>>
    /\ pc = "start" /\ err = "none"

\* lines 1059-1063 up to the creation of the range object
Call ==
    /\ pc = "start"
    /\ y' = zeros(Len(x))
    /\ igs' = input_grain_size(G, f)
    /\ win' = win_taper(G, overlap).win
    /\ stride' = win_taper(G, overlap).stride
    /\ n' = 0
    /\ IF win_taper(G, overlap).stride = 0
       THEN pc' = "raised" /\ err' = "ValueError"
       ELSE pc' = "loop" /\ err' = "none"
    /\ UNCHANGED <<x, f, G, P, overlap, r, a, e, w, tpos, val,
                 alt, h, ix, M, buf, todo, diff>>

\* one iteration of the grain loop, lines 1064-1069
GrainStep ==
    /\ pc = "loop"
    /\ InLoop(n)
    /\ \E gr \in {grain(n)} :
          /\ r' = gr.r /\ a' = gr.a /\ e' = gr.e /\ w' = gr.w
          /\ IF Broadcastable(gr.w, win) /\ Len(times(gr.w, win)) \in {1, G}
             THEN /\ y' = add_slice(y, n, G, times(gr.w, win))
                  /\ n' = n + stride
                  /\ pc' = "loop" /\ err' = "none"
             ELSE /\ pc' = "raised" /\ err' = "ValueError"
                  /\ UNCHANGED <<y, n>>
    /\ UNCHANGED <<x, f, G, P, overlap, win, stride, igs, tpos, val,
                 alt, h, ix, M, buf, todo, diff>>

\* the range is exhausted: return y (line 1070)
Return ==
    /\ pc = "loop"
    /\ ~InLoop(n)
    /\ pc' = "done"
    /\ UNCHANGED <<x, f, G, P, overlap, win, stride, igs, y, n, r, a, e, w, err, tpos, val,
                 alt, h, ix, M, buf, todo, diff>>

Next == Call \/ GrainStep \/ Return

Spec == Init /\ [][Next]_vars

(* --------------- specification: lpc and the two filters --------------- *)
\* A block x and an order P: r = bac(x, P), a = ld(r, P), e = the residual
\* of x under a, w = the resynthesis of e under a.  ld is also entered with
\* a directly supplied r, and the filters with a directly supplied a.
InitLpc ==
    /\ P \in 1..MaxP
    /\ \/ /\ pc = "bac_start"
          /\ x \in SeqsUpTo(Samples, MaxBlock) \ {<<>>}
          /\ r = <<>> /\ a = <<>>
       \/ /\ pc = "ld_start"
          /\ x = <<>>
          /\ r \in {s \in SeqsUpTo(Coefs, MaxP + 1) : Len(s) = P + 1}
          /\ a = <<>>
       \/ /\ pc = "filt_start"
          /\ x \in SeqsUpTo(Samples, MaxBlock) \ {<<>>}
          /\ r = <<>>
          /\ a \in {<<One>> \o s : s \in {q \in SeqsUpTo(Coefs, MaxP) : Len(q) = P}}
    /\ f = One /\ G = 0 /\ overlap = Zero(1)
    /\ win = <<>> /\ stride = 0 /\ igs = 0
    /\ y = <<>> /\ n = 0
    /\ e = <<>> /\ w = <<>>
    /\ tpos = Zero(1) /\ val = Zero(1)
    /\ alt = <<>> /\ h = <<>> /\ ix = 0 /\ M = 0 /\ buf = <<>>
    /\ todo = {} /\ diff = <<>>
    /\ err = "none"

\* line 960, first half: bac(x, p)
DoBac ==
    /\ pc = "bac_start"
    /\ r' = bac(x, P)
    /\ pc' = "ld_start"
    /\ UNCHANGED <<x, f, G, P, overlap, win, stride, igs, y, n, a, e, w, err, tpos, val,
                 alt, h, ix, M, buf, todo, diff>>

\* lines 937-947: ld returns its coefficient vector, it has no raise
DoLd ==
    /\ pc = "ld_start"
    /\ a' = ld(r, P)
    /\ err' = "none"
    /\ pc' = IF x = <<>> THEN "ld_done" ELSE "filt_start"
    /\ UNCHANGED <<x, f, G, P, overlap, win, stride, igs, y, n, r, e, w, tpos, val,
                 alt, h, ix, M, buf, todo, diff>>

\* e = sp.lfilter(a, [1], w)
DoAnalyze ==
    /\ pc = "filt_start"
    /\ e' = lfilter(a, <<One>>, x)
    /\ pc' = "synth"
    /\ UNCHANGED <<x, f, G, P, overlap, win, stride, igs, y, n, r, a, w, err, tpos, val,
                 alt, h, ix, M, buf, todo, diff>>

\* w = sp.lfilter([1], a, e)
DoSynth ==
    /\ pc = "synth"
    /\ w' = lfilter(<<One>>, a, e)
    /\ pc' = "filt_done"
    /\ UNCHANGED <<x, f, G, P, overlap, win, stride, igs, y, n, r, a, e, err, tpos, val,
                 alt, h, ix, M, buf, todo, diff>>

NextLpc == DoBac \/ DoLd \/ DoAnalyze \/ DoSynth

SpecLpc == InitLpc /\ [][NextLpc]_vars

(* --------------------- specification: win_taper ----------------------- *)
InitWin ==
    /\ G \in 1..MaxN
    /\ overlap \in Tapers
    /\ pc = "win_start"
    /\ x = <<>> /\ f = One /\ P = 0
    /\ win = <<>> /\ stride = 0 /\ igs = 0
    /\ y = <<>> /\ n = 0
    /\ r = <<>> /\ a = <<>> /\ e = <<>> /\ w = <<>>
    /\ tpos = Zero(1) /\ val = Zero(1)
    /\ alt = <<>> /\ h = <<>> /\ ix = 0 /\ M = 0 /\ buf = <<>>
    /\ todo = {} /\ diff = <<>>
    /\ err = "none"

\* win, stride = win_taper(N, a)
DoWinTaper ==
    /\ pc = "win_start"
    /\ win' = win_taper(G, overlap).win
    /\ stride' = win_taper(G, overlap).stride
    /\ pc' = "win_done"
    /\ UNCHANGED <<x, f, G, P, overlap, igs, y, n, r, a, e, w, err, tpos, val,
                 alt, h, ix, M, buf, todo, diff>>

\* win1 + win2 of the alignment cell: the window and its copy shifted by
\* stride, each padded with stride zeros
DoAlign ==
    /\ pc = "win_done"
    /\ y' = [i \in 1..(Len(win) + stride) |->
                Add((win \o zeros(stride))[i], (zeros(stride) \o win)[i])]
    /\ pc' = "win_summed"
    /\ UNCHANGED <<x, f, G, P, overlap, win, stride, igs, n, r, a, e, w, err, tpos, val,
                 alt, h, ix, M, buf, todo, diff>>

NextWin == DoWinTaper \/ DoAlign

SpecWin == InitWin /\ [][NextWin]_vars

(* --------------- specification: subsample and resample ---------------- *)
\* fractional indices in quarter steps, from before the start of the
\* longest block to past its end
Times == {Rat(k, 4) : k \in (-4 * (MaxBlock + 1))..(4 * (MaxBlock + 1))}

InitRes ==
    /\ x \in SeqsUpTo(Samples, MaxBlock)
    /\ \/ /\ pc = "sub_start"
          /\ tpos \in Times
          /\ f = One
       \/ /\ pc = "res_start"
          /\ tpos = Zero(1)
          /\ f \in Ratios
    /\ G = 0 /\ P = 0 /\ overlap = Zero(1)
    /\ win = <<>> /\ stride = 0 /\ igs = 0
    /\ y = <<>> /\ n = 0
    /\ r = <<>> /\ a = <<>> /\ e = <<>> /\ w = <<>>
    /\ val = Zero(1)
    /\ alt = <<>> /\ h = <<>> /\ ix = 0 /\ M = 0 /\ buf = <<>>
    /\ todo = {} /\ diff = <<>>
    /\ err = "none"

\* val = subsample(x, t)
DoSubsample ==
    /\ pc = "sub_start"
    /\ val' = subsample(x, tpos)
    /\ pc' = "sub_done"
    /\ UNCHANGED <<x, f, G, P, overlap, win, stride, igs, y, n, r, a, e, w, err, tpos,
                 alt, h, ix, M, buf, todo, diff>>

\* y = resample(x, f)
DoResample ==
    /\ pc = "res_start"
    /\ y' = resample(x, f)
    /\ pc' = "res_done"
    /\ UNCHANGED <<x, f, G, P, overlap, win, stride, igs, n, r, a, e, w, err, tpos, val,
                 alt, h, ix, M, buf, todo, diff>>

NextRes == DoSubsample \/ DoResample

SpecRes == InitRes /\ [][NextRes]_vars

(* ------- specification: the three granular variants, one input ------- *)
\* LPC_GS_pshift, then GS_pshift, then LPC_daft are called on the same x, G
\* and overlap (and f, P where they take them).  LPC_GS_pshift runs in the
\* variables of Spec; alt.gs and alt.daft hold the locals of the other two.
\* s[lo:hi] for 0 <= lo <= hi: the slice stops at the end of s
Slice(s, lo, hi) == SubSeq(s, lo + 1, Min(hi, Len(s)))

InLoopGS_noigs(k) == k < Len(x) - G

\* GS_pshift: range(0, len(x) - max(igs, G), stride) still yields k
InLoopGS(k) == k < Len(x) - Max(alt.gs.igs, G)

\* LPC_daft: range(0, len(x) - G, stride) still yields k
InLoopDaft(k) == k < Len(x) - G

\* np.sign(np.cos(d * np.arange(0, G))) for d = c * pi, c an integer
pulse(c, g) == [k1 \in 1..g |-> IF (c * (k1 - 1)) % 2 = 0 THEN One ELSE FromInt(-1)]

InitSched ==
    /\ x \in {ones(L) : L \in 0..(MaxLen + 3)}
    /\ f \in Ratios
    /\ G \in 1..MaxG
    /\ P \in 1..MaxP
    /\ overlap \in Overlaps
    /\ win = <<>> /\ stride = 0 /\ igs = 0
    /\ y = <<>> /\ n = 0
    /\ r = <<>> /\ a = <<>> /\ e = <<>> /\ w = <<>>
    /\ tpos = Zero(1) /\ val = Zero(1)
    /\ \E c \in {0, 1} :
          alt = [gs |-> [pc |-> "start", n |-> 0, igs |-> 0, win |-> <<>>,
                         stride |-> 0, y |-> <<>>, w |-> <<>>],
                 daft |-> [pc |-> "start", n |-> 0, d |-> c, e |-> <<>>,
                           win |-> <<>>, stride |-> 0, y |-> <<>>,
                           a |-> <<>>, w |-> <<>>]]
    /\ h = <<>> /\ ix = 0 /\ M = 0 /\ buf = <<>>
    /\ todo = {} /\ diff = <<>>
    /\ pc = "start" /\ err = "none"

\* GS_pshift, lines 556-561 up to the creation of the range object
GSCall ==
    /\ pc \in {"done", "raised"}
    /\ alt.gs.pc = "start"
    /\ alt' = [alt EXCEPT !.gs =
                  [pc |-> IF win_taper(G, overlap).stride = 0 THEN "raised" ELSE "loop",
                   n |-> 0,
                   igs |-> input_grain_size(G, f),
                   win |-> win_taper(G, overlap).win,
                   stride |-> win_taper(G, overlap).stride,
                   y |-> zeros(Len(x)),
                   w |-> <<>>]]
    /\ UNCHANGED <<x, f, G, P, overlap, win, stride, igs, y, n, r, a, e, w, tpos, val,
                   pc, err, h, ix, M, buf, todo, diff>>

\* one iteration of GS_pshift's loop, lines 562-563
GSStep ==
    /\ alt.gs.pc = "loop"
    /\ InLoopGS(alt.gs.n)
    /\ \E ww \in {resample(Slice(x, alt.gs.n, alt.gs.n + alt.gs.igs), f)} :
          alt' = [alt EXCEPT !.gs =
              IF Broadcastable(ww, alt.gs.win) /\ Len(times(ww, alt.gs.win)) \in {1, G}
              THEN [alt.gs EXCEPT !.w = ww,
                                  !.y = add_slice(alt.gs.y, alt.gs.n, G, times(ww, alt.gs.win)),
                                  !.n = alt.gs.n + alt.gs.stride]
              ELSE [alt.gs EXCEPT !.w = ww, !.pc = "raised"]]
    /\ UNCHANGED <<x, f, G, P, overlap, win, stride, igs, y, n, r, a, e, w, tpos, val,
                   pc, err, h, ix, M, buf, todo, diff>>

\* GS_pshift's range is exhausted: return y (line 564)
GSReturn ==
    /\ alt.gs.pc = "loop"
    /\ ~InLoopGS(alt.gs.n)
    /\ alt' = [alt EXCEPT !.gs.pc = "done"]
    /\ UNCHANGED <<x, f, G, P, overlap, win, stride, igs, y, n, r, a, e, w, tpos, val,
                   pc, err, h, ix, M, buf, todo, diff>>

\* LPC_daft, lines 1111-1116 up to the creation of the range object
DaftCall ==
    /\ alt.gs.pc \in {"done", "raised"}
    /\ alt.daft.pc = "start"
    /\ alt' = [alt EXCEPT !.daft =
                  [pc |-> IF win_taper(G, overlap).stride = 0 THEN "raised" ELSE "loop",
                   n |-> 0,
                   d |-> alt.daft.d,
                   e |-> pulse(alt.daft.d, G),
                   win |-> win_taper(G, overlap).win,
                   stride |-> win_taper(G, overlap).stride,
                   y |-> zeros(Len(x)),
                   a |-> <<>>,
                   w |-> <<>>]]
    /\ UNCHANGED <<x, f, G, P, overlap, win, stride, igs, y, n, r, a, e, w, tpos, val,
                   pc, err, h, ix, M, buf, todo, diff>>

\* one iteration of LPC_daft's loop, lines 1117-1119
DaftStep ==
    /\ alt.daft.pc = "loop"
    /\ InLoopDaft(alt.daft.n)
    /\ \E aa \in {lpc(Slice(x, alt.daft.n, alt.daft.n + G), P)} :
       \E ww \in {lfilter(<<One>>, aa, alt.daft.e)} :
          alt' = [alt EXCEPT !.daft =
              [alt.daft EXCEPT !.a = aa, !.w = ww,
                               !.y = add_slice(alt.daft.y, alt.daft.n, G,
                                               times(ww, alt.daft.win)),
                               !.n = alt.daft.n + alt.daft.stride]]
    /\ UNCHANGED <<x, f, G, P, overlap, win, stride, igs, y, n, r, a, e, w, tpos, val,
                   pc, err, h, ix, M, buf, todo, diff>>

\* LPC_daft's range is exhausted: return y (line 1120)
DaftReturn ==
    /\ alt.daft.pc = "loop"
    /\ ~InLoopDaft(alt.daft.n)
    /\ alt' = [alt EXCEPT !.daft.pc = "done"]
    /\ UNCHANGED <<x, f, G, P, overlap, win, stride, igs, y, n, r, a, e, w, tpos, val,
                   pc, err, h, ix, M, buf, todo, diff>>

NextSched ==
    \/ Call \/ GrainStep \/ Return
    \/ GSCall \/ GSStep \/ GSReturn
    \/ DaftCall \/ DaftStep \/ DaftReturn

SpecSched == InitSched /\ [][NextSched]_vars

(* ---------------------- specification: FIR_loop ----------------------- *)
\* One FIR_loop object: x is the sequence of samples passed to filter so
\* far, y the sequence of values it returned.
Taps == {FromInt(1), FromInt(-1), Rat(1, 2)}

\* the moving-average cell: h = np.ones(5)/5, inputs 0..9
CellTaps == 5
CellCalls == 10

fir_sum_fwd(hh, bb, i, k) ==
    LET RECURSIVE acc(_)
        acc(m) == IF m = 0 THEN Zero(1)
                  ELSE Add(acc(m - 1), Mul(hh[m], bb[((i + (m - 1)) % Len(hh)) + 1]))
    IN acc(k)

\* y after k rounds of  y += h[n] * buf[(ix + M - n) % M]  (n = 0..k-1)
RECURSIVE fir_sum(_, _, _, _)
fir_sum(hh, bb, i, k) ==
    IF k = 0 THEN Zero(1)
    ELSE Add(fir_sum(hh, bb, i, k - 1),
             Mul(hh[k], bb[((i + Len(hh) - (k - 1)) % Len(hh)) + 1]))

next_ix_nowrap(i, m) == i + 1

\* (self.ix + 1) % self.M
next_ix(i, m) == (i + 1) % m

\* the object after FIR_loop(h)
InitFir ==
    /\ \/ /\ pc = "fir_ready"
          /\ h \in SeqsUpTo(Taps, MaxTaps)
       \/ /\ pc = "cell_ready"
          /\ h = [k \in 1..CellTaps |-> Div(One, FromInt(CellTaps))]
    /\ ix = 0
    /\ M = Len(h)
    /\ buf = zeros(Len(h))
    /\ x = <<>> /\ y = <<>>
    /\ f = One /\ G = 0 /\ P = 0 /\ overlap = Zero(1)
    /\ win = <<>> /\ stride = 0 /\ igs = 0 /\ n = 0
    /\ r = <<>> /\ a = <<>> /\ e = <<>> /\ w = <<>>
    /\ tpos = Zero(1) /\ val = Zero(1)
    /\ alt = <<>> /\ todo = {} /\ diff = <<>>
    /\ err = "none"

\* FIR_loop.filter(v): buf[ix] = v raises IndexError on an empty buffer
filter(v) ==
    /\ x' = Append(x, v)
    /\ IF M = 0
       THEN /\ pc' = "fir_raised" /\ err' = "IndexError"
            /\ UNCHANGED <<buf, ix, y>>
       ELSE /\ buf' = [buf EXCEPT ![ix + 1] = v]
            /\ y' = Append(y, fir_sum(h, [buf EXCEPT ![ix + 1] = v], ix, M))
            /\ ix' = next_ix(ix, M)
            /\ UNCHANGED <<pc, err>>
    /\ UNCHANGED <<h, M, f, G, P, overlap, win, stride, igs, n, r, a, e, w, tpos, val,
                   alt, todo, diff>>

\* a caller passes the next sample
Filter ==
    /\ pc = "fir_ready"
    /\ Len(x) < MaxCalls
    /\ \E v \in Samples : filter(v)

\* for n in range(0, 10): f.filter(n)
FilterCell ==
    /\ pc = "cell_ready"
    /\ Len(x) < CellCalls
    /\ filter(FromInt(Len(x)))

NextFir == Filter \/ FilterCell

SpecFir == InitFir /\ [][NextFir]_vars

(* ------------------------ specification: cconv ------------------------ *)
\* sum over k = 0..m-1 of v[k] * u[i-k], the terms with i-k inside u
RECURSIVE conv_at(_, _, _, _)
conv_at(u, v, i, m) ==
    IF m = 0 THEN Zero(1)
    ELSE LET j == i - (m - 1)
         IN IF 0 <= j /\ j < Len(u)
            THEN Add(conv_at(u, v, i, m - 1), Mul(v[m], u[j + 1]))
            ELSE conv_at(u, v, i, m - 1)

\* np.convolve(u, v), mode 'full', both non-empty
convolve(u, v) == [i1 \in 1..(Len(u) + Len(v) - 1) |-> conv_at(u, v, i1 - 1, Len(v))]

cconv_head(s, hh) == SubSeq(convolve(s \o s, hh), 1, Len(s))

\* y[L:2*L] of the full convolution of two periods of s with hh
cconv(s, hh) == SubSeq(convolve(s \o s, hh), Len(s) + 1, 2 * Len(s))

InitConv ==
    /\ x \in SeqsUpTo(Samples, MaxBlock)
    /\ h \in SeqsUpTo(Taps, MaxTaps)
    /\ M = Len(h)
    /\ pc \in {"cconv_start", "padded_start"}
    /\ y = <<>> /\ diff = <<>>
    /\ ix = 0 /\ buf = <<>>
    /\ f = One /\ G = 0 /\ P = 0 /\ overlap = Zero(1)
    /\ win = <<>> /\ stride = 0 /\ igs = 0 /\ n = 0
    /\ r = <<>> /\ a = <<>> /\ e = <<>> /\ w = <<>>
    /\ tpos = Zero(1) /\ val = Zero(1)
    /\ alt = <<>> /\ todo = {}
    /\ err = "none"

\* y = cconv(x, h); np.convolve raises ValueError on an empty argument
DoCconv ==
    /\ pc = "cconv_start"
    /\ IF x = <<>> \/ h = <<>>
       THEN pc' = "conv_raised" /\ err' = "ValueError" /\ UNCHANGED y
       ELSE pc' = "cconv_done" /\ y' = cconv(x, h) /\ UNCHANGED err
    /\ UNCHANGED <<x, f, G, P, overlap, win, stride, igs, n, r, a, e, w, tpos, val,
                   alt, h, ix, M, buf, todo, diff>>

\* y = cconv(np.concatenate((x, np.zeros(M-1))), h) and the plotted
\* difference y - np.convolve(x, h, mode='full'); np.zeros(-1) raises
DoPadded ==
    /\ pc = "padded_start"
    /\ IF x = <<>> \/ h = <<>>
       THEN pc' = "conv_raised" /\ err' = "ValueError" /\ UNCHANGED <<y, diff>>
       ELSE /\ pc' = "padded_done"
            /\ y' = cconv(x \o zeros(M - 1), h)
            /\ diff' = [i \in 1..(Len(x) + M - 1) |->
                           Sub(cconv(x \o zeros(M - 1), h)[i], convolve(x, h)[i])]
            /\ UNCHANGED err
    /\ UNCHANGED <<x, f, G, P, overlap, win, stride, igs, n, r, a, e, w, tpos, val,
                   alt, h, ix, M, buf, todo>>

NextConv == DoCconv \/ DoPadded

SpecConv == InitConv /\ [][NextConv]_vars

(* ------- specification: the grains of one call, in any order --------- *)
\* The loop body of LPC_GS_pshift (lines 1064-1069) applied once to every
\* start index of range(0, len(x) - max(igs, G), stride), each application
\* atomic, the order left open; todo holds the start indices still to do.
range_starts(len, lim, st) == {k \in 0..len : k % st = 0 /\ k < lim}

InitPar ==
    /\ x \in SeqsUpTo({FromInt(0), FromInt(1)}, MaxLen)
    /\ f \in Ratios
    /\ G \in 1..MaxG
    /\ P \in 1..MaxP
    /\ overlap \in Overlaps
    /\ win = <<>> /\ stride = 0 /\ igs = 0
    /\ y = <<>> /\ n = 0
    /\ r = <<>> /\ a = <<>> /\ e = <<>> /\ w = <<>>
    /\ tpos = Zero(1) /\ val = Zero(1)
    /\ alt = <<>> /\ h = <<>> /\ ix = 0 /\ M = 0 /\ buf = <<>>
    /\ todo = {} /\ diff = <<>>
    /\ pc = "par_start" /\ err = "none"

\* lines 1059-1063: the accumulator, the window and the range of grains
ParCall ==
    /\ pc = "par_start"
    /\ y' = zeros(Len(x))
    /\ igs' = input_grain_size(G, f)
    /\ win' = win_taper(G, overlap).win
    /\ stride' = win_taper(G, overlap).stride
    /\ n' = 0
    /\ IF win_taper(G, overlap).stride = 0
       THEN pc' = "par_raised" /\ err' = "ValueError" /\ todo' = {}
       ELSE /\ pc' = "par_loop" /\ err' = "none"
            /\ todo' = range_starts(Len(x),
                                    Len(x) - Max(input_grain_size(G, f), G),
                                    win_taper(G, overlap).stride)
    /\ UNCHANGED <<x, f, G, P, overlap, r, a, e, w, tpos, val,
                   alt, h, ix, M, buf, diff>>

\* lines 1064-1069 for one of the remaining grains
Accumulate ==
    /\ pc = "par_loop"
    /\ \E k \in todo :
       \E gr \in {grain(k)} :
          /\ r' = gr.r /\ a' = gr.a /\ e' = gr.e /\ w' = gr.w
          /\ n' = k
          /\ IF Broadcastable(gr.w, win) /\ Len(times(gr.w, win)) \in {1, G}
             THEN /\ y' = add_slice(y, k, G, times(gr.w, win))
                  /\ todo' = todo \ {k}
                  /\ pc' = "par_loop" /\ err' = "none"
             ELSE /\ pc' = "par_raised" /\ err' = "ValueError"
                  /\ UNCHANGED <<y, todo>>
    /\ UNCHANGED <<x, f, G, P, overlap, win, stride, igs, tpos, val,
                   alt, h, ix, M, buf, diff>>

\* every grain has been accumulated: return y (line 1070)
ParReturn ==
    /\ pc = "par_loop"
    /\ todo = {}
    /\ pc' = "par_done"
    /\ UNCHANGED <<x, f, G, P, overlap, win, stride, igs, y, n, r, a, e, w, err, tpos, val,
                   alt, h, ix, M, buf, todo, diff>>

NextPar == ParCall \/ Accumulate \/ ParReturn

SpecPar == InitPar /\ [][NextPar]_vars

(* =============================== claims =============================== *)
\* the parameter sets the pitch shifter documents as valid
ValidParams ==
    /\ IsFinite(f) /\ f[1] > 0
    /\ G >= 1
    /\ 1 <= P /\ P < G
    /\ IsFinite(overlap) /\ 0 <= overlap[1] /\ overlap[1] < overlap[2]

InvalidParams == G <= 0 \/ P <= 0 \/ P >= G \/ ~(IsFinite(f) /\ f[1] > 0)

AllZero(s) == \A i \in 1..Len(s) : IsZero(s[i])

\* the grain start indices range(0, len(x) - max(igs, G), stride) yields
Starts == {k \in 0..Len(x) : stride > 0 /\ k % stride = 0 /\ InLoop(k)}

\* the processed grains whose output range [k, k+G) holds the index i (1-based)
Covering(i) == {k \in Starts : k + 1 <= i /\ i <= k + G}

RECURSIVE GainOver(_, _)
GainOver(i, S) ==
    IF S = {} THEN Zero(1)
    ELSE LET k == CHOOSE q \in S : TRUE
         IN Add(win[i - k], GainOver(i, S \ {k}))

\* the sum of the window gains the processed grains apply at index i
Gain(i) == GainOver(i, Covering(i))

\* a processed grain covering i whose source x[k : k+igs] is all zero
ZeroGrainCovers(i) ==
    \E k \in Covering(i) : \A j \in (k + 1)..(k + igs) : IsZero(x[j])

\* ld divides by a zero prediction-error power: r[0] = 0, or v = 0 after an
\* order that is not the last
Degenerate(rr, p) ==
    \/ IsZero(rr[1])
    \/ \E i \in 0..(p - 2) : IsZero(ld_state(rr, i).v)

\* C1: for every input and every valid parameter set, LPC_GS_pshift
\* completes and returns a sequence as long as x.
C1_LengthPreserved ==
    (ValidParams /\ pc \notin {"start", "loop"})
        => (pc = "done" /\ Len(y) = Len(x))

\* C2 (as stated): at ratio 1 the output equals the input at every index.
C2_IdentityEverywhere ==
    (ValidParams /\ f = One /\ pc = "done")
        => \A i \in 1..Len(x) : Eq(y[i], x[i])

\* C2 (amended): at ratio 1 the returned y[i] is Gain(i) * x[i], where
\* Gain(i) is the sum of the window gains of the processed grains covering
\* i, and nan when a processed grain covering i is all zero; so y[i] = x[i]
\* where the gains sum to 1 and y[i] = 0 where no grain covers i.
C2_IdentityWhereUnity ==
    (f = One /\ pc = "done")
        => /\ Len(y) = Len(x)
           /\ \A i \in 1..Len(x) :
                 IF ZeroGrainCovers(i) THEN IsNaN(y[i])
                 ELSE Eq(y[i], Mul(Gain(i), x[i]))

\* two grains were processed, and an index of unit gain carries a non-zero
\* sample through
C2_Witness ==
    /\ f = One /\ pc = "done"
    /\ Cardinality(Starts) >= 2
    /\ \E i \in 1..Len(x) :
          /\ Gain(i) = One /\ ~IsZero(x[i]) /\ ~ZeroGrainCovers(i)
          /\ y[i] = x[i]

\* C3: the window and its copy shifted by stride sum to exactly 1 at every
\* index j of their overlap, stride <= j <= N-1.
C3_CrossfadeUnity ==
    (pc = "win_summed" /\ stride >= 1)
        => \A j \in stride..(G - 1) : Eq(y[j + 1], One)

\* C4: the analysis filter followed by the synthesis filter, both from zero
\* state and with the same a (a[0] = 1), returns exactly x, and both outputs
\* are as long as their input.
C4_RoundTrip ==
    pc = "filt_done"
        => /\ a[1] = One
           /\ Len(e) = Len(x) /\ Len(w) = Len(e)
           /\ \A i \in 1..Len(x) : Eq(w[i], x[i])

\* C5: for an all-zero input of length >= G+P no exception arises and every
\* output sample is 0 (no nan, no inf).
C5_ZeroInZeroOut ==
    (ValidParams /\ AllZero(x) /\ Len(x) >= G + P /\ pc # "start")
        => /\ pc # "raised"
           /\ \A i \in 1..Len(y) : IsZero(y[i])

\* C6: a grain whose LPC analysis is degenerate is processed with the
\* identity coefficients a = [1] and leaves only finite samples in y.
C6_IdentityFallback ==
    (pc \in {"loop", "done"} /\ r # <<>> /\ Degenerate(r, P))
        => /\ a = <<One>>
           /\ \A i \in 1..Len(y) : IsFinite(y[i])

\* C7: ld signals an error outcome when it would divide by a zero
\* prediction-error power, instead of returning nan/inf coefficients.
C7_DegenerateSignalled ==
    (pc \in {"ld_done", "filt_start"} /\ r # <<>> /\ Degenerate(r, P))
        => /\ err # "none"
           /\ \A i \in 1..Len(a) : IsFinite(a[i])

\* C8: a call with invalid parameters ends in an error outcome (whatever its
\* name) before any grain is processed and before the accumulator is written;
\* no output is returned.
C8_InvalidRejected ==
    (InvalidParams /\ pc \notin {"start", "loop"})
        => /\ pc = "raised" /\ err # "none"
           /\ r = <<>>
           /\ AllZero(y)

\* the sum over k = 0..L-m-1 of x[k] * x[k+m], on the integer sample values
RECURSIVE LagSum(_, _, _)
LagSum(s, m, k) ==
    IF k = 0 THEN 0 ELSE LagSum(s, m, k - 1) + s[k][1] * s[k + m][1]

\* C10: bac(x, p) has p+1 entries, r[m] = (1/L) * sum_{k<L-m} x[k]*x[k+m]
\* for every m in 0..p (p < L), and is the zero vector for an all-zero x.
C10_BiasedAutocorrelation ==
    (pc = "ld_start" /\ x # <<>> /\ P < Len(x))
        => /\ Len(r) = P + 1
           /\ \A m \in 0..P :
                 /\ IsFinite(r[m + 1])
                 /\ r[m + 1][2] > 0
                 /\ r[m + 1][1] * Len(x) = LagSum(x, m, Len(x) - m) * r[m + 1][2]
           /\ (AllZero(x) => AllZero(r))

\* bac of the block [1, 1, -1] up to lag 2: r = [1, 0, -1/3]
C10_Witness ==
    /\ pc = "ld_start" /\ P = 2
    /\ x = <<FromInt(1), FromInt(1), FromInt(-1)>>
    /\ r = <<One, Zero(1), Rat(-1, 3)>>

\* u <= v on finite values (a zero of either sign has numerator 0)
Leq(u, v) == u[1] * Abs(v[2]) <= v[1] * Abs(u[2])

\* sum over i, j in 1..k of v[i] * rr[|i-j|] * v[j], the quadratic form of
\* the Toeplitz matrix T[i][j] = rr[|i-j|]
RECURSIVE QuadTo(_, _, _, _)
QuadTo(rr, v, k, c) ==
    IF c = 0 THEN Zero(1)
    ELSE LET i == ((c - 1) \div k) + 1
             j == ((c - 1) % k) + 1
         IN Add(QuadTo(rr, v, k, c - 1),
                Mul(FromInt(v[i] * v[j]), rr[Abs(i - j) + 1]))

QuadForm(rr, v) == QuadTo(rr, v, Len(rr), Len(rr) * Len(rr))

LdActed == r # <<>> /\ pc \notin {"bac_start", "ld_start"}

\* row i of the Toeplitz normal equations: sum over j = 1..k of
\* sol[j] * rr[|i-j|]
RECURSIVE ToepRow(_, _, _, _)
ToepRow(rr, sol, i, k) ==
    IF k = 0 THEN Zero(1)
    ELSE Add(ToepRow(rr, sol, i, k - 1), Mul(sol[k], rr[Abs(i - k) + 1]))

Solves(rr, sol) ==
    \A i \in 1..Len(sol) : Eq(ToepRow(rr, sol, i, Len(sol)), rr[i + 1])

\* C12: on every r where ld divides by no zero, the predictor coefficients
\* of ld's final loop state (stored last order first: a_j is entry p+1-j)
\* solve sum_j a_j r[|i-j|] = r[i] for i = 1..p.
C12_SolvesNormalEquations ==
    (LdActed /\ ~Degenerate(r, P))
        => LET fin == ld_state(r, P - 1).a
           IN Solves(r, [j \in 1..P |-> fin[P + 1 - j]])

\* order 2, r = [1, 0, 1]: the second reflection coefficient is 1 and the
\* solution is a_1 = 0, a_2 = 1
C12_Witness ==
    /\ LdActed /\ P = 2 /\ ~Degenerate(r, P)
    /\ r = <<FromInt(1), FromInt(0), FromInt(1)>>
    /\ ld_state(r, 1).g = One
    /\ Eq(ld_state(r, 1).a[2], Zero(1))

\* C13 as written: the returned vector is [1, -a_p, ..., -a_1], so entry
\* p+1-k (0-based) negated is a_k and these solve the normal equations.
C13_ReturnedLastFirst ==
    (LdActed /\ ~Degenerate(r, P))
        => /\ a[1] = One
           /\ Solves(r, [k \in 1..P |-> Neg(a[P + 2 - k])])

\* C13 amended: the returned vector is [1, -a_1, ..., -a_p]: entry k
\* (0-based) negated is a_k and these solve the normal equations.
C13_ReturnedFirstFirst ==
    (LdActed /\ ~Degenerate(r, P))
        => /\ a[1] = One
           /\ Solves(r, [k \in 1..P |-> Neg(a[k + 1])])

\* r = [1, 0, 1] returns [1, -0, -1]: a_1 = 0 sits at index 1, a_2 = 1 at 2
C13_Witness ==
    /\ LdActed /\ P = 2
    /\ r = <<FromInt(1), FromInt(0), FromInt(1)>>
    /\ Len(a) = 3 /\ IsZero(a[2]) /\ a[3] = FromInt(-1)

\* C14: whatever r is, ld(r, p) returns p+1 entries and the first is
\* exactly 1, also at p = 1 where the loop body never runs.
C14_LeadingOne ==
    LdActed => (Len(a) = P + 1 /\ a[1] = One)

\* order 1 on a non-degenerate r: [1, -r[1]/r[0]]
C14_Witness ==
    /\ LdActed /\ P = 1
    /\ r = <<FromInt(1), FromInt(-1)>>
    /\ a = <<One, One>>

\* floor(t) and the numerator of t - floor(t) over the denominator of t,
\* for a finite t
Floor(t) == IF t[1] >= 0 THEN t[1] \div t[2]
            ELSE -((-t[1] + t[2] - 1) \div t[2])
FracNum(t) == t[1] - Floor(t) * t[2]

\* C15: for t >= 0 with floor(t)+1 <= len(x)-1, subsample(x, t) is
\* (1-frac)*x[floor(t)] + frac*x[floor(t)+1]; at an integer t it is x[t].
C15_InteriorInterpolation ==
    (pc = "sub_done" /\ tpos[1] >= 0 /\ Floor(tpos) + 1 <= Len(x) - 1)
        => LET k == Floor(tpos)
               fr == FracNum(tpos)
               td == tpos[2]
           IN /\ Eq(val, Rat((td - fr) * x[k + 1][1] + fr * x[k + 2][1], td))
              /\ fr = 0 => Eq(val, x[k + 1])

\* a quarter of the way from 1 to -1
C15_Witness ==
    /\ pc = "sub_done"
    /\ x = <<FromInt(1), FromInt(-1), FromInt(0)>>
    /\ tpos = Rat(1, 4)
    /\ val = Rat(1, 2)

\* C16: with floor(t) the last valid index, subsample(x, t) is x[floor(t)]
\* unscaled; with floor(t) past the end or negative it is 0.
C16_BoundaryPolicy ==
    pc = "sub_done"
        => LET k == Floor(tpos)
           IN /\ (0 <= k /\ k = Len(x) - 1) => Eq(val, x[k + 1])
              /\ (k >= Len(x) \/ k < 0) => IsZero(val)

\* C17: resample(x, f) has floor(len(x)/f) samples, sample n is
\* subsample(x, n*f), and at f = 1 the result is x sample for sample.
C17_ResampleContract ==
    pc = "res_done"
        => /\ Len(y) * f[1] <= Len(x) * f[2]
           /\ Len(x) * f[2] < (Len(y) + 1) * f[1]
           /\ \A m \in 0..(Len(y) - 1) :
                 y[m + 1] = subsample(x, Rat(m * f[1], f[2]))
           /\ f = One => /\ Len(y) = Len(x)
                         /\ \A m \in 1..Len(x) : Eq(y[m], x[m])

\* three samples at ratio 3/4 give four, the second a quarter of the way
\* from x[0] to x[1]
C17_Witness ==
    /\ pc = "res_done"
    /\ f = Rat(3, 4)
    /\ x = <<FromInt(1), FromInt(-1), FromInt(1)>>
    /\ Len(y) = 4
    /\ y[2] = Rat(-1, 2)

\* the start indices of the grains the loop has completed: the multiples
\* of stride below the loop index n
Processed == {m \in 0..(n - 1) : stride > 0 /\ m % stride = 0}

\* C18 as written: when the call returns, a grain was processed at a
\* multiple n of stride exactly when n + max(igs, G) <= len(x).
C18_ScheduleInclusive ==
    pc = "done"
        => Processed = {m \in 0..Len(x) :
                           m % stride = 0 /\ m + Max(igs, G) <= Len(x)}

\* C18 amended: igs = floor(G*f + 1/2); the loop index is a multiple of
\* stride and every grain entered, completed or raising, starts at an n
\* with n + max(igs, G) < len(x); when the call returns the processed
\* grains are exactly those, none at all for len(x) = max(igs, G).
C18_ScheduleStrict ==
    pc \in {"loop", "done", "raised"}
        => /\ 2 * f[2] * igs <= 2 * G * f[1] + f[2]
           /\ 2 * G * f[1] + f[2] < 2 * f[2] * (igs + 1)
           /\ stride > 0 => n % stride = 0
           /\ \A m \in Processed : m + Max(igs, G) < Len(x)
           /\ (pc = "raised" /\ stride > 0) => n + Max(igs, G) < Len(x)
           /\ pc = "done"
                 => /\ Processed = {m \in 0..Len(x) :
                                       m % stride = 0 /\ m + Max(igs, G) < Len(x)}
                    /\ Len(x) = Max(igs, G) => Processed = {}

\* two grains or more, and the next multiple of stride is the one with
\* n + max(igs, G) = len(x), which is not processed
C18_Witness ==
    /\ pc = "done"
    /\ stride > 0 /\ n >= 2 * stride
    /\ n + Max(igs, G) = Len(x)

\* C19: when LPC_GS_pshift returns, y[i] = 0 at every index i in no
\* processed grain's output range [m, m+G): every i >= n_last + G, and
\* every i when no grain was processed.
C19_UncoveredZero ==
    pc = "done"
        => /\ \A i \in 0..(Len(y) - 1) :
                 (\A m \in Processed : i < m \/ i >= m + G) => IsZero(y[i + 1])
           /\ \A i \in 0..(Len(y) - 1) :
                 (n > 0 /\ i >= (n - stride) + G) => IsZero(y[i + 1])
           /\ n = 0 => AllZero(y)

\* a grain wrote a non-zero sample and the tail after the last grain is
\* there to stay zero
C19_Witness ==
    /\ pc = "done" /\ n > 0
    /\ (n - stride) + G < Len(y)
    /\ \E i \in 1..Len(y) : IsFinite(y[i]) /\ ~IsZero(y[i])

\* C20: for N >= 1 and a in [0, 1], win_taper(N, a) returns N gains within
\* [0, 1]: the ramp k/R for k in 0..R-1 with R = floor(N*a/2), N-2R ones,
\* the mirrored ramp; and stride = N - R - 1.
C20_WindowShape ==
    pc \in {"win_done", "win_summed"}
        => \E R \in 0..G :
              /\ 2 * overlap[2] * R <= G * overlap[1]
              /\ G * overlap[1] < 2 * overlap[2] * (R + 1)
              /\ Len(win) = G
              /\ stride = G - R - 1
              /\ \A k \in 0..(R - 1) : win[k + 1] = Rat(k, R) /\ win[G - k] = Rat(k, R)
              /\ \A j \in (R + 1)..(G - R) : win[j] = One
              /\ \A j \in 1..G : Leq(Zero(1), win[j]) /\ Leq(win[j], One)

\* N = 8, a = 3/4: R = 3, a ramp of thirds on each side of two ones
C20_Witness ==
    /\ pc = "win_done"
    /\ G = 8 /\ overlap = Rat(3, 4)
    /\ win = <<Zero(1), Rat(1, 3), Rat(2, 3), One, One, Rat(2, 3), Rat(1, 3), Zero(1)>>
    /\ stride = 4

\* C21: for valid parameters (f > 0, G >= 2, 1 <= P < G, overlap in [0, 1))
\* the grain loop finishes and the call returns: the stride is >= 1, and the
\* call is never stopped short of its return statement (it is at a statement
\* it can execute, pc = "start" or "loop", or it has returned).
C21_Terminates ==
    (/\ IsFinite(f) /\ f[1] > 0
     /\ G >= 2 /\ 1 <= P /\ P < G
     /\ IsFinite(overlap) /\ 0 <= overlap[1] /\ overlap[1] < overlap[2])
        => /\ pc \in {"start", "loop", "done"}
           /\ pc \in {"loop", "done"} => stride >= 1

\* the three calls on one input have all ended
AllEnded == /\ pc \in {"done", "raised"}
            /\ alt # <<>>
            /\ alt.gs.pc \in {"done", "raised"}
            /\ alt.daft.pc \in {"done", "raised"}

\* GS_pshift ended as LPC_GS_pshift did, at the same loop index, with the
\* same input grain size, window and stride: the same grain start indices
\* n, source ranges x[n:n+igs] and output ranges y[n:n+G]
SameAsGS == /\ alt.gs.pc = pc /\ alt.gs.n = n
            /\ alt.gs.igs = igs /\ alt.gs.stride = stride /\ alt.gs.win = win

\* C22 as written: GS_pshift processes the grains of LPC_GS_pshift, and
\* LPC_daft visits the same grain start indices with the same window and
\* stride (compared on calls of LPC_GS_pshift that return).
C22_SameSchedule ==
    AllEnded
        => /\ SameAsGS
           /\ alt.daft.win = win /\ alt.daft.stride = stride
           /\ pc = "done" => (alt.daft.pc = "done" /\ alt.daft.n = n)

\* C22 amended: GS_pshift processes the grains of LPC_GS_pshift; LPC_daft
\* has the same window and stride and visits the multiples n of stride
\* with n + G < len(x): every start index of LPC_GS_pshift, the same ones
\* when igs <= G, and it never raises on a shape.
C22_SameScheduleUpToGrainSize ==
    AllEnded
        => /\ SameAsGS
           /\ alt.daft.win = win /\ alt.daft.stride = stride
           /\ (alt.daft.pc = "raised") = (stride = 0)
           /\ alt.daft.pc = "done"
                 => /\ alt.daft.n % stride = 0
                    /\ alt.daft.n + G >= Len(x)
                    /\ alt.daft.n > 0 => (alt.daft.n - stride) + G < Len(x)
                    /\ alt.daft.n >= n
                    /\ (pc = "done" /\ igs <= G) => alt.daft.n = n

\* an input grain longer than the output grain: LPC_daft visits a start
\* index that the two pitch shifters do not
C22_Witness ==
    /\ AllEnded /\ pc = "done" /\ alt.gs.pc = "done" /\ alt.daft.pc = "done"
    /\ igs > G /\ n > 0
    /\ alt.daft.n > n
    /\ alt.gs.n = n

\* sum over n = 0..k-1 of hh[n] * s[t-n], the t-th (1-based) sample of the
\* causal convolution of s with hh, samples before the first taken as 0
RECURSIVE CausalSum(_, _, _, _)
CausalSum(hh, s, t, k) ==
    IF k = 0 THEN Zero(1)
    ELSE Add(CausalSum(hh, s, t, k - 1),
             IF t - (k - 1) >= 1 THEN Mul(hh[k], s[t - (k - 1)]) ELSE Zero(1))

\* C23: on one FIR_loop object with M >= 1 taps, the t-th call of filter
\* returns sum_{n<M} h[n] * x[t-n] (x[j] = 0 for j < 0), one output per
\* input; the moving average of 5 on the inputs 0..9 returns
\* 0, 0.2, 0.6, 1.2, 2, 3, 4, 5, 6, 7.
C23_OnlineConvolution ==
    (pc \in {"fir_ready", "cell_ready"} /\ M >= 1)
        => /\ Len(y) = Len(x)
           /\ \A t \in 1..Len(x) : Eq(y[t], CausalSum(h, x, t, M))
           /\ (pc = "cell_ready" /\ Len(x) = CellCalls)
                 => \A t \in 1..CellCalls :
                       Eq(y[t], <<Zero(1), Rat(1, 5), Rat(3, 5), Rat(6, 5), FromInt(2),
                                  FromInt(3), FromInt(4), FromInt(5), FromInt(6),
                                  FromInt(7)>>[t])

\* more calls than taps, so that the ring buffer has wrapped
C23_Witness ==
    /\ pc = "fir_ready"
    /\ h = <<FromInt(1), Rat(1, 2)>>
    /\ x = <<FromInt(1), FromInt(-1), FromInt(1)>>
    /\ y = <<FromInt(1), Rat(-1, 2), Rat(1, 2)>>

\* the ring-buffer state after Len(x) calls: ix = t mod M, slot
\* (ix - 1 - k) mod M holds the k-th most recent input, the other slots 0
RingInv ==
    /\ 0 <= ix /\ ix < M
    /\ ix = Len(x) % M
    /\ M = Len(h) /\ Len(buf) = M
    /\ \A k \in 0..(Min(Len(x), M) - 1) :
          buf[((ix - 1 - k) % M) + 1] = x[Len(x) - k]
    /\ \A j \in 0..(M - 1) :
          (\A k \in 0..(Min(Len(x), M) - 1) : j # (ix - 1 - k) % M)
              => buf[j + 1] = Zero(1)

\* C30: for M >= 1 the ring-buffer state holds before and after every call
\* of filter, h and M are unchanged by it, and the call overwrites exactly
\* the slot ix (the oldest) with the new input, leaving the others as they
\* were.
C30_RingBuffer ==
    [][(pc \in {"fir_ready", "cell_ready"} /\ M >= 1)
          => /\ RingInv /\ RingInv'
             /\ h' = h /\ M' = M
             /\ buf' = [buf EXCEPT ![ix + 1] = x'[Len(x')]]
             /\ Len(x') = Len(x) + 1]_vars

\* three taps, four calls: the buffer has wrapped and the first input is
\* gone
C30_Witness ==
    /\ pc = "fir_ready"
    /\ M = 3 /\ ix = 1
    /\ x = <<FromInt(1), FromInt(-1), FromInt(0), FromInt(-1)>>
    /\ buf = <<FromInt(-1), FromInt(-1), FromInt(0)>>

\* sum over k = 0..m-1 of hh[k] * s[(i-k) mod Len(s)]
RECURSIVE CircSum(_, _, _, _)
CircSum(s, hh, i, m) ==
    IF m = 0 THEN Zero(1)
    ELSE Add(CircSum(s, hh, i, m - 1), Mul(hh[m], s[((i - (m - 1)) % Len(s)) + 1]))

\* sum over j = 0..m-1 of s[j] * hh[i-j], the linear convolution at i
\* summed over the input index
RECURSIVE LinSum(_, _, _, _)
LinSum(s, hh, i, m) ==
    IF m = 0 THEN Zero(1)
    ELSE LET k == i - (m - 1)
         IN Add(LinSum(s, hh, i, m - 1),
                IF 0 <= k /\ k < Len(hh) THEN Mul(s[m], hh[k + 1]) ELSE Zero(1))

\* C24: for 1 <= M <= N, cconv(x, h) has N samples with
\* cconv(x, h)[n] = sum_k h[k] x[(n-k) mod N]; and cconv of x followed by
\* M-1 zeros is the full linear convolution of x with h, N+M-1 samples
\* with zero difference at every index.
C24_CircularConvolution ==
    (1 <= M /\ M <= Len(x))
        => /\ pc \notin {"cconv_start", "padded_start"} => pc # "conv_raised"
           /\ pc = "cconv_done"
                 => /\ Len(y) = Len(x)
                    /\ \A i \in 0..(Len(x) - 1) : Eq(y[i + 1], CircSum(x, h, i, M))
           /\ pc = "padded_done"
                 => /\ Len(y) = Len(x) + M - 1
                    /\ Len(diff) = Len(y)
                    /\ \A i \in 1..Len(y) : IsZero(diff[i])
                    /\ \A i \in 0..(Len(y) - 1) : Eq(y[i + 1], LinSum(x, h, i, Len(x)))

\* two taps on three samples: the first output wraps round to the last
\* input
C24_Witness ==
    /\ pc = "cconv_done"
    /\ x = <<FromInt(1), FromInt(0), FromInt(-1)>>
    /\ h = <<FromInt(1), FromInt(1)>>
    /\ y = <<FromInt(0), FromInt(1), FromInt(-1)>>

\* C25: the accumulator starts as len(x) zeros; the grain processed at n
\* changes y only at the indices n..n+G-1, each by adding the grain's
\* windowed sample to the previous value; the other indices of y and all
\* of x are left as they were (a grain that raises changes neither).
C25_AccumulatorFrame ==
    [][/\ x' = x
       /\ pc = "start" => y' = zeros(Len(x))
       /\ (pc = "loop" /\ pc' = "raised") => y' = y
       /\ (pc = "loop" /\ pc' = "loop")
             => /\ Len(y') = Len(y)
                /\ \A i \in 1..Len(y) :
                      IF n + 1 <= i /\ i <= n + G
                      THEN y'[i] = Add(y[i], times(w', win)[i - n])
                      ELSE y'[i] = y[i]]_vars

\* two grains processed, and an index of the second grain's range holds
\* more than that grain's own windowed sample: the first grain's sample is
\* still in the sum
C25_Witness ==
    /\ pc = "loop" /\ stride > 0 /\ n = 2 * stride
    /\ \E i \in (n - stride + 1)..(n - stride + G) :
          /\ i <= n - 2 * stride + G
          /\ IsFinite(y[i])
          /\ IsFinite(times(w, win)[i - (n - stride)])
          /\ ~IsZero(times(w, win)[i - (n - stride)])
          /\ ~Eq(y[i], times(w, win)[i - (n - stride)])

\* y after the loop of LPC_GS_pshift has run left to right from the start
\* index k with the accumulator yy
RECURSIVE SeqFrom(_, _)
SeqFrom(yy, k) ==
    IF ~InLoop(k) THEN yy
    ELSE SeqFrom(add_slice(yy, k, G, times(grain(k).w, win)), k + stride)

\* C26: with each grain's accumulation applied atomically, the y returned
\* is the same for every order in which the grains are processed, and it
\* is the left-to-right result: no grain's update is lost.
C26_OrderIndependent ==
    pc = "par_done" => y = SeqFrom(zeros(Len(x)), 0)

\* three grains, overlapping in pairs, the last one accumulated first
C26_Witness ==
    /\ pc = "par_loop"
    /\ Cardinality(todo) = 2
    /\ stride < G /\ n = 2 * stride
    /\ \E i \in 1..Len(y) : IsFinite(y[i]) /\ ~IsZero(y[i])

\* C27: the grain processed at n is computed from x[n .. n+igs-1] and
\* (f, G, P, overlap) alone: its autocorrelation, coefficients, residual,
\* resynthesis and windowed contribution are those of that range filtered
\* from zero state, whatever the previous grain left in r, a, e, w and
\* whatever the other samples of x are.
C27_GrainIndependent ==
    [][(pc = "loop" /\ InLoop(n))
          => /\ win = win_taper(G, overlap).win
             /\ r' = bac(SubSeq(x, n + 1, n + igs), P)
             /\ a' = ld(r', P)
             /\ e' = resample(lfilter(a', <<One>>, SubSeq(x, n + 1, n + igs)), f)
             /\ w' = lfilter(<<One>>, a', e')
             /\ pc' = "loop" => y' = add_slice(y, n, G, times(w', win))]_vars

\* a second grain whose autocorrelation differs from the first grain's
C27_Witness ==
    /\ pc = "loop" /\ stride > 0 /\ n = 2 * stride
    /\ r = bac(SubSeq(x, n - stride + 1, n - stride + igs), P)
    /\ r # bac(SubSeq(x, 1, igs), P)
    /\ \A i \in 1..Len(w) : IsFinite(w[i])

\* C28: in every iteration of the grain loop, for every ratio f > 0 and
\* grain size G, the resampled grain has exactly G samples:
\* floor(floor(G*f + 1/2) / f) = G, so w * win is well-formed.
C28_ResampledGrainHasG ==
    (pc = "loop" /\ InLoop(n) /\ IsFinite(f) /\ f[1] > 0)
        => /\ igs = input_grain_size(G, f)
           /\ (igs * f[2]) \div f[1] = G

\* product over k = 0..i of (1 - g_k^2), g_k the reflection coefficient of
\* order k
RECURSIVE GainTo(_, _)
GainTo(rr, i) ==
    IF i < 0 THEN One
    ELSE Mul(GainTo(rr, i - 1),
             Sub(One, Mul(ld_state(rr, i).g, ld_state(rr, i).g)))

\* C29: for r = bac(x, p) of a non-zero block, at every order i of the
\* recursion in ld the reflection coefficient g is finite with |g| <= 1 and
\* the prediction-error power v satisfies 0 <= v <= r[0] and
\* v = r[0] * product over k <= i of (1 - g_k^2).
C29_ReflectionBounded ==
    (pc = "ld_start" /\ x # <<>> /\ ~AllZero(x))
        => \A i \in 0..(P - 1) :
              /\ IsFinite(ld_state(r, i).g)
              /\ Leq(ld_state(r, i).g, One)
              /\ Leq(Neg(One), ld_state(r, i).g)
              /\ IsFinite(ld_state(r, i).v)
              /\ Leq(Zero(1), ld_state(r, i).v)
              /\ Leq(ld_state(r, i).v, r[1])
              /\ ld_state(r, i).v = Mul(r[1], GainTo(r, i))

\* bac of [1, -1, 1] at order 2: both reflection coefficients are
\* non-zero and the error power drops strictly at each order
C29_Witness ==
    /\ pc = "ld_start" /\ P = 2
    /\ x = <<FromInt(1), FromInt(-1), FromInt(1)>>
    /\ r = bac(x, P)
    /\ ~IsZero(ld_state(r, 0).g) /\ ~IsZero(ld_state(r, 1).g)
    /\ ld_state(r, 1).v[1] > 0
    /\ ~Leq(ld_state(r, 0).v, ld_state(r, 1).v)
    /\ ~Leq(r[1], ld_state(r, 0).v)

====
